---- MODULE Spec2Model ----
(***************************************************************************)
(* SyntroAuth demo frontend: the browser-side state machine made of the    *)
(* auth / MFA services, the pages that call them, localStorage,            *)
(* sessionStorage and the requests sent to the backend.                    *)
(*                                                                         *)
(* Conventions.  A JavaScript string of characters (password, email) is a  *)
(* sequence of one-character strings.  A token is the sequence of its      *)
(* '.'-separated segments.  null / undefined / "no item" is Null.  The      *)
(* backend and the OAuth provider are external: their answers are inputs   *)
(* drawn from small sets.  `sent` is the list of fetch() calls issued by   *)
(* the handler that ran last.                                              *)
(***************************************************************************)
EXTENDS Integers, Sequences, FiniteSets, TLC

VARIABLES
    localStorage,    \* [auth_token, refresh_token] -> token or Null
    sessionStorage,  \* [mfa_temp_token, oauth_redirect_uri] -> value or Null
    origin,          \* window.location.origin
    envRedirect,     \* process.env.NEXT_PUBLIC_REDIRECT_URI ("" when unset)
    path,            \* window.location pathname, or "provider" while at the OAuth provider
    authUrl,         \* the authorization URL the browser was sent to
    query,           \* query parameters of the current URL (code, error, state)
    flowRedirect,    \* redirect URI of the OAuth flow in progress (Null: none)
    oauthProviders,  \* LoginPage state: client id of google ("" when not offered)
    status,          \* OAuthCallbackPage state
    claims,          \* DashboardPage state
    verify,          \* VerifyEmailPage state: token of the link, state, accessToken
    dashToken,       \* the token DashboardPage read when it mounted
    mfaStep,         \* MfaSetupPage state `step`
    mfaToken,        \* MfaSetupPage state `tempToken`
    pageError,       \* the page's `error` state
    timer,           \* pending setTimeout callback of the page ("none" when none)
    mounted,         \* whether the page's mount effect (useEffect) has run
    op,              \* the handler that ran last, its arguments, backend answers and result
    sent             \* the requests that handler issued, in order

vars == <<localStorage, sessionStorage, origin, envRedirect, path, authUrl, query,
          flowRedirect, oauthProviders, status, claims, verify, dashToken, mfaStep,
          mfaToken, pageError, timer, mounted, op, sent>>

----------------------------------------------------------------------------
(* Bounds of the model *)

\* distinct signatures a token can carry
MaxSig == 1

----------------------------------------------------------------------------
(* Values *)

Null == <<>>

SP == " "
CH == "a"

RECURSIVE Repeat(_, _)
Repeat(c, n) == IF n = 0 THEN <<>> ELSE <<c>> \o Repeat(c, n - 1)

\* RegisterPage.handleSubmit: formData.password.length < 8
MinPasswordLength == 8

\* passwords an arbitrary caller passes to the services
ShortPasswords == { <<>>, <<SP>>, <<CH>>, <<SP, CH>> }

\* passwords typed into the registration form: the short ones, and some of
\* MinPasswordLength - 1 and MinPasswordLength characters
Passwords ==
    ShortPasswords
    \cup {Repeat(CH, n) : n \in (MinPasswordLength - 1)..MinPasswordLength}
    \cup {Repeat(SP, MinPasswordLength), <<SP>> \o Repeat(CH, MinPasswordLength - 1)}

\* emails typed into the forms
Emails ==
    { <<"u", "@", "x", ".", "i">>,
      <<"u", "@", "x">>,
      <<SP>> }

\* emails an arbitrary caller passes to the services
ServiceEmails == { <<>>, <<"u", "@", "x", ".", "i">> }

ClientIds == {"", "client-id"}

Names == { <<>>, <<"n">> }

Codes == {"", "123456"}

ProviderNames == {"", "google", "Google", "apple"}

Origins == {"https://demo.up.railway.app", "http://localhost:3000"}

\* String.prototype.trim on a string of characters
RECURSIVE TrimStart(_)
TrimStart(s) == IF Len(s) > 0 /\ Head(s) = SP THEN TrimStart(Tail(s)) ELSE s

RECURSIVE TrimEnd(_)
TrimEnd(s) ==
    IF Len(s) > 0 /\ s[Len(s)] = SP THEN TrimEnd(SubSeq(s, 1, Len(s) - 1)) ELSE s

Trim(s) == TrimEnd(TrimStart(s))

\* /^[^\s@]+@[^\s@]+\.[^\s@]+$/.test(email)
Plain(s, i, j) == \A k \in i..j : s[k] # SP /\ s[k] # "@"

EmailRegexTest(s) ==
    \E a \in 1..Len(s) : \E d \in 1..Len(s) :
        /\ s[a] = "@" /\ s[d] = "."
        /\ 1 < a /\ a + 1 < d /\ d < Len(s)
        /\ Plain(s, 1, a - 1) /\ Plain(s, a + 1, d - 1) /\ Plain(s, d + 1, Len(s))

----------------------------------------------------------------------------
(* Tokens.  A segment is text in some alphabet: "alnum" uses only the      *)
(* letters and digits that Base64 and Base64URL share, "std" is Base64     *)
(* text that uses '+' or '/', "url" is Base64URL text that uses '-' or     *)
(* '_', "bad" is neither.                                                  *)

Seg(alphabet, text, n) == [alphabet |-> alphabet, text |-> text, n |-> n]

EmptySeg == Seg("alnum", "", 0)
EmptyTok == <<EmptySeg>>

Hdr == Seg("alnum", "hdr", 0)
Sig(n) == Seg("url", "sig", n)

\* payload segments: Base64 / Base64URL of a JSON text, of a non-JSON text, or garbage
PayloadSegs ==
    { Seg("alnum", "jsonA", 0),        \* {"sub":"a","email":"a@x.io",...}
      Seg("url", "jsonB", 0),        \* {"sub":"b","email":"b@x.io",...}, encoded with '-' or '_'
      Seg("alnum", "jsonNoEmail", 0),  \* {"sub":"a"}
      Seg("alnum", "notJson", 0),
      Seg("bad", "", 0) }

\* the access tokens the backend may answer with
GoodTok(n) == <<Hdr, Seg("alnum", "jsonA", 0), Sig(n)>>

AccessTokens ==
    { GoodTok(n) : n \in 1..MaxSig }
    \cup { <<Hdr, p, Sig(1)>> : p \in PayloadSegs }
    \cup { <<Hdr, Seg("alnum", "jsonA", 0)>>,   \* two segments only
           <<Hdr>>,                            \* one segment only
           EmptyTok }

RefreshTok == <<Seg("alnum", "refresh", 0)>>
RefreshTokens == {RefreshTok, EmptyTok, Null}

TempTok == <<Seg("alnum", "temp", 0)>>
TempTokens == {TempTok, EmptyTok}

FalsyTok(t) == t = Null \/ t = EmptyTok

\* String.prototype.replaceAll('-', '+').replaceAll('_', '/')
UrlToStd(seg) == IF seg.alphabet = "url" THEN [seg EXCEPT !.alphabet = "std"] ELSE seg

\* atob: decodes Base64 text, throws on anything else
Atob(seg) ==
    IF seg.alphabet \in {"alnum", "std"}
    THEN [threw |-> FALSE, text |-> seg.text]
    ELSE [threw |-> TRUE, text |-> ""]

\* null, as a value of the type of the claims
NoClaims == [isNull |-> TRUE, sub |-> "", email |-> ""]

Claims(sub, email) == [isNull |-> FALSE, sub |-> sub, email |-> email]

\* JSON.parse of the decoded payload text
JsonParse(text) ==
    CASE text = "jsonA"       -> [threw |-> FALSE, value |-> Claims("a", "a@x.io")]
      [] text = "jsonB"       -> [threw |-> FALSE, value |-> Claims("b", "b@x.io")]
      [] text = "jsonNoEmail" -> [threw |-> FALSE, value |-> Claims("a", "")]
      [] OTHER                -> [threw |-> TRUE,  value |-> NoClaims]

\* a decodeJwtPayload that trusts nothing but the signature it knows
decodeJwtPayloadSigned(token) ==
    IF Len(token) # 3 \/ token[3] # Sig(1) THEN NoClaims
    ELSE JsonParse(Atob(UrlToStd(token[2])).text).value

\* decodeJwtPayload: the claims, or NoClaims for null (the catch block turns
\* a throw of atob or JSON.parse into null)
decodeJwtPayload(token) ==
    IF Len(token) # 3 THEN NoClaims
    ELSE LET decoded == Atob(UrlToStd(token[2]))
         IN  IF decoded.threw THEN NoClaims
             ELSE IF JsonParse(decoded.text).threw THEN NoClaims
             ELSE JsonParse(decoded.text).value

\* the tokens decodeJwtPayload is called with
JwtInputs ==
    AccessTokens
    \cup { <<Hdr, Seg("std", "jsonA", 0), Sig(1)>>,       \* payload in plain Base64
           <<Hdr, Seg("alnum", "jsonA", 0), EmptySeg>>,   \* empty signature
           <<Hdr, Seg("url", "jsonB", 0), EmptySeg>>,
           <<Hdr, Seg("alnum", "jsonA", 0), Sig(1), EmptySeg>> }   \* four parts

----------------------------------------------------------------------------
(* Backend answers.  fail: the fetch rejected ("fetch"), or the body could *)
(* not be parsed ("parse"); ok: response.ok; the rest is the parsed body.  *)

Resp(fail, ok, success, msg, kind, access, refresh, temp, message) ==
    [fail |-> fail, ok |-> ok, success |-> success, msg |-> msg, kind |-> kind,
     access |-> access, refresh |-> refresh, temp |-> temp, message |-> message]

NoResp == Resp("none", FALSE, FALSE, "", "none", Null, Null, Null, "")

FetchFailed == Resp("fetch", FALSE, FALSE, "", "none", Null, Null, Null, "")
ParseFailed(ok) == Resp("parse", ok, FALSE, "", "none", Null, Null, Null, "")

FailedResponses == { FetchFailed, ParseFailed(TRUE), ParseFailed(FALSE) }

ErrorResponses ==
    { Resp("none", FALSE, FALSE, m, "none", Null, Null, Null, "") : m \in {"", "backend says no"} }
    \cup { Resp("none", TRUE, FALSE, "backend says no", "none", Null, Null, Null, ""),
           Resp("none", FALSE, TRUE, "", "none", Null, Null, Null, "") }

MfaResponses ==
    { Resp("none", TRUE, TRUE, "", "mfa", Null, Null, TempTok, m) :
        m \in {"SETUP_REQUIRED", "MFA_REQUIRED"} }
    \cup { Resp("none", TRUE, TRUE, "", "mfa", Null, Null, EmptyTok, "MFA_REQUIRED") }

TokenResponses ==
    { Resp("none", TRUE, TRUE, "", "tokens", a, RefreshTok, Null, "") : a \in AccessTokens }
    \cup { Resp("none", TRUE, TRUE, "", "tokens", GoodTok(1), r, Null, "") :
             r \in RefreshTokens }

PlainOkResponses == { Resp("none", TRUE, TRUE, "", "none", Null, Null, Null, "") }

\* answers of the endpoints that issue tokens
LoginResponses ==
    { FetchFailed, ParseFailed(TRUE) } \cup ErrorResponses \cup MfaResponses
    \cup TokenResponses \cup PlainOkResponses

\* answers of the other endpoints
SimpleResponses == FailedResponses \cup ErrorResponses \cup PlainOkResponses

\* answers of /api/auth/mfa/setup: kind "setup" carries secret and qrCodeUri
SetupResponses ==
    SimpleResponses \cup { Resp("none", TRUE, TRUE, "", "setup", Null, Null, Null, "") }

\* answers of /api/auth/verify-email/confirm: kind "enabled" has
\* twoFactorEnabled, kind "secret" carries twoFactorSecret; access is accessToken
VerifyEmailResponses ==
    { FetchFailed, ParseFailed(TRUE),
      Resp("none", FALSE, FALSE, "", "none", Null, Null, Null, "") }
    \cup { Resp("none", TRUE, TRUE, "", k, a, Null, Null, "") :
             k \in {"enabled", "secret", "none"}, a \in {Null, GoodTok(1)} }

\* answers of /api/auth/oauth/config: kind "google" offers google with a client id
ConfigResponses ==
    SimpleResponses \cup { Resp("none", TRUE, TRUE, "", "google", Null, Null, Null, "") }
----------------------------------------------------------------------------
(* Requests: one record per fetch() call *)

NoPassword == [present |-> FALSE, enc |-> FALSE, text |-> <<>>]

\* a password as the user typed it
PlainText(p) == [present |-> TRUE, enc |-> FALSE, text |-> p]

\* the value encryptPassword resolves to (RSA-OAEP ciphertext of p)
Ciphertext(p) == [present |-> TRUE, enc |-> TRUE, text |-> p]

\* encryptPassword(password): resolves to the ciphertext or throws
encryptPassword(p, encOk) ==
    IF encOk THEN [threw |-> FALSE, value |-> Ciphertext(p)]
    ELSE [threw |-> TRUE, value |-> NoPassword]

\* the API base URL of the request: API_URL, or a literal address
BaseRequest(base, url) ==
    [base |-> base, url |-> url, tenant |-> FALSE, bearer |-> Null,
     email |-> <<>>, password |-> NoPassword, provider |-> "", code |-> "",
     redirectUri |-> Null, tempToken |-> Null, token |-> ""]

----------------------------------------------------------------------------
(* Results of the service operations *)

ErrRequired      == "Email y contraseña son requeridos"
ErrConnection    == "Error de conexión con el servidor"
ErrInvalid       == "Respuesta del servidor inválida"
ErrUnexpected    == "Ha ocurrido un error inesperado"
ErrCreateUser    == "Error al crear usuario"
ErrPasswordEmpty == "Contraseña: La contraseña no puede estar vacía"
ErrOAuthRequired == "Provider, code y redirectUri son requeridos"
ErrMfaConnection == "Error de conexión"
ErrMfaSetup      == "Error al iniciar setup MFA"
ErrMfaEnable     == "Error al habilitar MFA"
ErrMfaSession    == "Sesión inválida recibida del servidor"

NoSession == [isNull |-> TRUE, token |-> Null, refreshToken |-> Null, userId |-> ""]

\* A result object.  mfaRequired, tempToken and message are what the
\* properties of those names evaluate to on the object (undefined: FALSE,
\* Null, ""); qrCodeUri tells whether MfaSetupResult carries one.
NoResult ==
    [settled |-> "none", success |-> FALSE, error |-> "", session |-> NoSession,
     mfaRequired |-> FALSE, tempToken |-> Null, message |-> "", qrCodeUri |-> FALSE]

Failure(error) == [NoResult EXCEPT !.settled = "resolved", !.error = error]

Success(session) ==
    [NoResult EXCEPT !.settled = "resolved", !.success = TRUE, !.session = session]

\* a promise that rejects instead of resolving to a result object
Rejected == [NoResult EXCEPT !.settled = "rejected"]

\* apiAdapter.toAuthSession
toAuthSession(resp) ==
    IF ~resp.success THEN NoSession
    ELSE IF resp.kind = "mfa" THEN NoSession
    ELSE IF resp.kind # "tokens" THEN NoSession
    ELSE IF FalsyTok(resp.access) \/ FalsyTok(resp.refresh) THEN NoSession
    ELSE IF Len(resp.access) < 2 THEN NoSession
    ELSE LET decoded == Atob(resp.access[2])
             parsed  == JsonParse(decoded.text)
         IN  IF decoded.threw \/ parsed.threw THEN NoSession
             ELSE IF parsed.value.sub = "" \/ parsed.value.email = "" THEN NoSession
             ELSE [isNull |-> FALSE, token |-> resp.access,
                   refreshToken |-> resp.refresh, userId |-> parsed.value.sub]

\* apiAdapter.getErrorMessage
getErrorMessage(resp) ==
    IF resp.success THEN ""
    ELSE IF resp.msg # "" THEN resp.msg ELSE ErrUnexpected

\* a store that files the two tokens under each other's key
StoreSessionSwapped(ls, session) ==
    [ls EXCEPT !.auth_token = session.refreshToken, !.refresh_token = session.token]

\* localStorage.setItem('auth_token', ...) and, for a truthy refresh token,
\* localStorage.setItem('refresh_token', ...)
StoreSession(ls, session) ==
    IF FalsyTok(session.refreshToken)
    THEN [ls EXCEPT !.auth_token = session.token]
    ELSE [ls EXCEPT !.auth_token = session.token, !.refresh_token = session.refreshToken]

\* what an operation did: its result, the requests it issued, localStorage afterwards
Outcome(result, requests, ls) == [result |-> result, sent |-> requests, ls |-> ls]
----------------------------------------------------------------------------
(* authService *)

\* a fetch that is issued again when the network fails
FetchRetry(req, resp) == IF resp.fail = "fetch" THEN <<req, req>> ELSE <<req>>

\* one fetch() call: the requests it puts on the wire
Fetch(req, resp) == <<req>>

\* a catch block that rethrows
CatchAllRethrow == Rejected

\* the catch block of the authService operations
CatchAll == Failure(ErrConnection)

\* the part of login / oauthLogin after `await response.json()`
SessionFromResponse(req, resp, ls) ==
    IF resp.fail # "none" THEN Outcome(CatchAll, Fetch(req, resp), ls)
    ELSE IF ~resp.ok THEN Outcome(Failure(getErrorMessage(resp)), Fetch(req, resp), ls)
    ELSE LET session == toAuthSession(resp)
         IN  IF session.isNull
             THEN Outcome(Failure(ErrInvalid), Fetch(req, resp), ls)
             ELSE Outcome(Success(session), Fetch(req, resp), StoreSession(ls, session))

\* authService.login
login(email, password, encOk, resp, ls) ==
    IF Len(email) = 0 \/ Len(password) = 0
    THEN Outcome(Failure(ErrRequired), <<>>, ls)
    ELSE LET encrypted == encryptPassword(password, encOk)
             req == [BaseRequest("API_URL", "/api/auth/login") EXCEPT
                        !.email = email, !.password = encrypted.value]
         IN  IF encrypted.threw
             THEN Outcome(CatchAll, <<>>, ls)
             ELSE SessionFromResponse(req, resp, ls)

\* validatePassword
validatePassword(password) == Len(Trim(password)) # 0

\* a register that does not look at the answer to the create request
CreateSucceededAlways(createResp) == TRUE

\* register: `createResponse.ok` after a body that parsed
CreateSucceeded(createResp) == createResp.fail = "none" /\ createResp.ok

\* authService.register.  (encOk, createResp) are the outcomes of step 1,
\* (loginEncOk, loginResp) those of the login of step 2.
register(email, password, encOk, createResp, loginEncOk, loginResp, ls) ==
    IF Len(email) = 0 \/ Len(password) = 0
    THEN Outcome(Failure(ErrRequired), <<>>, ls)
    ELSE IF ~validatePassword(password)
    THEN Outcome(Failure(ErrPasswordEmpty), <<>>, ls)
    ELSE LET encrypted == encryptPassword(password, encOk)
             req == [BaseRequest("API_URL", "/api/users") EXCEPT
                        !.email = email, !.password = encrypted.value]
         IN  IF encrypted.threw
             THEN Outcome(CatchAll, <<>>, ls)
             ELSE IF ~CreateSucceeded(createResp)
             THEN IF createResp.fail # "none"
                  THEN Outcome(CatchAll, Fetch(req, createResp), ls)
                  ELSE Outcome(Failure(IF createResp.msg # "" THEN createResp.msg
                                       ELSE ErrCreateUser),
                               Fetch(req, createResp), ls)
             ELSE LET loginResult == login(email, password, loginEncOk, loginResp, ls)
                  IN  Outcome(loginResult.result,
                              Fetch(req, createResp) \o loginResult.sent,
                              loginResult.ls)

\* authService.oauthLogin
oauthLogin(provider, code, redirectUri, resp, ls) ==
    IF provider = "" \/ code = "" \/ redirectUri = Null
    THEN Outcome(Failure(ErrOAuthRequired), <<>>, ls)
    ELSE LET req == [BaseRequest("API_URL", "/api/auth/oauth/login") EXCEPT
                        !.provider = provider, !.code = code,
                        !.redirectUri = redirectUri]
         IN  SessionFromResponse(req, resp, ls)

\* a logout that forgets the refresh token
logoutAccessOnly(ls) == [ls EXCEPT !.auth_token = Null]

\* authService.logout
logout(ls) == [ls EXCEPT !.auth_token = Null, !.refresh_token = Null]

----------------------------------------------------------------------------
(* mfaService *)

\* getDefaultHeaders, plus the Authorization header for a truthy token
MfaRequest(url, token) ==
    [BaseRequest("API_URL", url) EXCEPT
        !.tenant = TRUE,
        !.bearer = IF FalsyTok(token) THEN Null ELSE token]

\* the catch block of the mfaService operations
MfaCatchAll == Failure(ErrMfaConnection)

\* mfaService.initiateSetup
initiateSetup(token, resp, ls) ==
    LET req == MfaRequest("/api/auth/mfa/setup", token)
    IN  IF resp.fail # "none" THEN Outcome(MfaCatchAll, Fetch(req, resp), ls)
        ELSE IF ~resp.ok \/ ~resp.success
        THEN Outcome(Failure(IF getErrorMessage(resp) # "" THEN getErrorMessage(resp)
                             ELSE ErrMfaSetup),
                     Fetch(req, resp), ls)
        ELSE Outcome([Success(NoSession) EXCEPT !.qrCodeUri = (resp.kind = "setup")],
                     Fetch(req, resp), ls)

\* mfaService.enable: `password` is put into the body as it was passed in
enable(code, password, token, resp, ls) ==
    LET req == [MfaRequest("/api/auth/mfa/enable", token) EXCEPT
                    !.code = code, !.password = PlainText(password)]
    IN  IF resp.fail = "fetch" THEN Outcome(MfaCatchAll, Fetch(req, resp), ls)
        ELSE IF ~resp.ok
        THEN Outcome(Failure(IF resp.fail = "none" /\ resp.msg # "" THEN resp.msg
                             ELSE ErrMfaEnable),
                     Fetch(req, resp), ls)
        ELSE Outcome(Success(NoSession), Fetch(req, resp), ls)

\* mfaService.verifyLogin
verifyLogin(tempToken, code, resp, ls) ==
    LET req == [BaseRequest("API_URL", "/api/auth/login/2fa") EXCEPT
                    !.tenant = TRUE, !.tempToken = tempToken, !.code = code]
    IN  IF resp.fail # "none" THEN Outcome(MfaCatchAll, Fetch(req, resp), ls)
        ELSE IF ~resp.ok THEN Outcome(Failure(getErrorMessage(resp)), Fetch(req, resp), ls)
        ELSE LET session == toAuthSession(resp)
             IN  IF session.isNull
                 THEN Outcome(Failure(ErrMfaSession), Fetch(req, resp), ls)
                 ELSE Outcome(Success(session), Fetch(req, resp), StoreSession(ls, session))
----------------------------------------------------------------------------
(* lib/constants/config and lib/utils/oauth *)

CallbackPath == "/auth/callback"

\* getRedirectUri: env is NEXT_PUBLIC_REDIRECT_URI, hasWindow is
\* `typeof window !== 'undefined'`
getRedirectUri(env, hasWindow, org) ==
    IF env # "" THEN <<env, CallbackPath>>
    ELSE IF hasWindow THEN <<org, CallbackPath>>
    ELSE <<"http://localhost:3000", CallbackPath>>

\* getCurrentRedirectUri
getCurrentRedirectUri(env, hasWindow, org) == getRedirectUri(env, hasWindow, org)

\* String.prototype.toLowerCase on the provider names in use
ToLowerCase(s) == IF s = "Google" THEN "google" ELSE s

\* encodeURIComponent, and the decoding done by whoever reads the URL
EncodeURIComponent(x) == [encoded |-> TRUE, raw |-> x]
DecodeURIComponent(e) == e.raw

NoAuthUrl ==
    [host |-> "", client_id |-> EncodeURIComponent(""),
     redirect_uri |-> EncodeURIComponent(Null), state |-> EncodeURIComponent("")]

\* buildOAuthUrl: the URL, or threw
buildOAuthUrl(provider, clientId, redirectUri, state) ==
    IF provider = "" \/ clientId = "" \/ redirectUri = Null
    THEN [threw |-> TRUE, url |-> NoAuthUrl]
    ELSE LET normalizedProvider == ToLowerCase(provider)
             encodedState == IF state # "" THEN EncodeURIComponent(state)
                             ELSE EncodeURIComponent(normalizedProvider)
         IN  IF normalizedProvider = "google"
             THEN [threw |-> FALSE,
                   url |-> [host |-> "accounts.google.com",
                            client_id |-> EncodeURIComponent(clientId),
                            redirect_uri |-> EncodeURIComponent(redirectUri),
                            state |-> encodedState]]
             ELSE [threw |-> TRUE, url |-> NoAuthUrl]

\* a query parameter as URLSearchParams.get returns it: null when the URL
\* does not have it, otherwise its text, which may be empty
NoParam == [present |-> FALSE, text |-> ""]
Param(t) == [present |-> TRUE, text |-> t]

\* JavaScript truthiness of such a value: neither null nor ''
Truthy(v) == v.present /\ v.text # ""

\* parseOAuthCallback gives [code, error, state], each kept as it was read
Query(code, error, state) == [code |-> code, error |-> error, state |-> state]
NoQuery == Query(NoParam, NoParam, NoParam)

\* the parameters a callback URL can carry
CodeParams  == {NoParam, Param(""), Param("123456")}
ErrorParams == {NoParam, Param(""), Param("access_denied")}
StateParams == {NoParam, Param("google")}

\* a validation that looks at the code only
validateOAuthCallbackCodeOnly(params) == Truthy(params.code)

\* validateOAuthCallback(params).valid
validateOAuthCallback(params) ==
    IF Truthy(params.error) THEN FALSE
    ELSE IF ~Truthy(params.code) THEN FALSE
    ELSE TRUE

\* authService.initiateOAuth: the URL assigned to window.location.href, or threw
initiateOAuth(provider, clientId, env, org) ==
    IF provider = "" \/ clientId = ""
    THEN [threw |-> TRUE, url |-> NoAuthUrl]
    ELSE buildOAuthUrl(provider, clientId, getCurrentRedirectUri(env, TRUE, org), provider)

\* a callback page that always sends the development fallback
CallbackRedirectUriFallback(saved, env, org) == <<"http://localhost:3000", CallbackPath>>

\* OAuthCallbackPage.handleCallback: `savedRedirectUri || getRedirectUri()`
CallbackRedirectUri(saved, env, org) ==
    IF saved # Null THEN saved ELSE getRedirectUri(env, TRUE, org)

----------------------------------------------------------------------------
(* Pages *)

\* a page of the integrating frontend other than the pages of this
\* repository: the place of the callers of the services that are not one of
\* the handlers below
OtherPath == "/other"

AppPaths == {"/login", "/register", "/dashboard", "/mfa/setup", "/login/2fa", OtherPath}

\* the page of the link in the verification e-mail
VerifyEmailPath == "/verify-email"

EnvRedirects == {"", "https://demo.up.railway.app"}

NoOp ==
    [name |-> "none", email |-> <<>>, password |-> <<>>, userName |-> <<>>,
     provider |-> "", clientId |-> "", decoded |-> NoClaims,
     code |-> "", redirectUri |-> Null, token |-> Null, encFailed |-> FALSE,
     resp |-> NoResp, createResp |-> NoResp, result |-> NoResult, threw |-> FALSE]

\* VerifyEmailPage before its link has been read
NoVerify == [token |-> "", state |-> "verifying", accessToken |-> Null]

NoStorage == [auth_token |-> Null, refresh_token |-> Null]
NoSessionStorage == [mfa_temp_token |-> Null, oauth_redirect_uri |-> Null]

Init ==
    /\ localStorage = NoStorage
    /\ sessionStorage = NoSessionStorage
    /\ origin \in Origins
    /\ envRedirect \in EnvRedirects
    /\ path = "/login"
    /\ mounted = FALSE
    /\ authUrl = NoAuthUrl
    /\ query = NoQuery
    /\ flowRedirect = Null
    /\ oauthProviders = ""
    /\ status = "loading"
    /\ claims = NoClaims
    /\ verify = NoVerify
    /\ dashToken = Null
    /\ mfaStep = "loading"
    /\ mfaToken = Null
    /\ pageError = ""
    /\ timer = "none"
    /\ op = NoOp
    /\ sent = <<>>

\* the state of a page that has just been loaded
FreshPage ==
    /\ oauthProviders' = ""
    /\ status' = "loading"
    /\ claims' = NoClaims
    /\ verify' = NoVerify
    /\ dashToken' = Null
    /\ mfaStep' = "loading"
    /\ mfaToken' = Null
    /\ pageError' = ""
    /\ timer' = "none"

\* the browser loads page p of the application (RegisterPage has no mount effect)
Load(p, q, flow) ==
    /\ path' = p
    /\ mounted' = (p \in {"/register", OtherPath})
    /\ authUrl' = NoAuthUrl
    /\ query' = q
    /\ flowRedirect' = flow
    /\ FreshPage

GoTo(p) == Load(p, NoQuery, Null)

SamePage ==
    UNCHANGED <<path, mounted, authUrl, query, flowRedirect, oauthProviders, status,
                claims, verify, dashToken, mfaStep, mfaToken, pageError, timer>>

\* the page the direct calls of the services are made from
AppLoaded == path = OtherPath

\* the user opens a page of the application
Navigate ==
    \E p \in AppPaths :
        /\ GoTo(p)
        /\ op' = [NoOp EXCEPT !.name = "navigate"]
        /\ sent' = <<>>
        /\ UNCHANGED <<localStorage, sessionStorage, origin, envRedirect>>

\* the user opens the callback page with an arbitrary query string
NavigateCallback ==
    \E code \in CodeParams, error \in ErrorParams, state \in StateParams :
        /\ Load(CallbackPath, Query(code, error, state), Null)
        /\ op' = [NoOp EXCEPT !.name = "navigate"]
        /\ sent' = <<>>
        /\ UNCHANGED <<localStorage, sessionStorage, origin, envRedirect>>
----------------------------------------------------------------------------
(* The service operations, called with arbitrary arguments *)

\* inputs that an invocation consumes only when it gets that far
EncChoices(reached) == IF reached THEN BOOLEAN ELSE {TRUE}
RespChoices(reached, S) == IF reached THEN S ELSE {NoResp}

Environment == <<origin, envRedirect>>

\* the runs of login(email, password): the inputs consumed and the outcome
LoginRuns(email, password, ls) ==
    LET reached == Len(email) # 0 /\ Len(password) # 0
    IN  UNION { { [encFailed |-> ~encOk, createResp |-> NoResp, resp |-> resp,
                   out |-> login(email, password, encOk, resp, ls)] :
                  resp \in RespChoices(reached /\ encOk, LoginResponses) } :
                encOk \in EncChoices(reached) }

\* the runs of register(email, password)
RegisterRuns(email, password, ls) ==
    LET reached == Len(email) # 0 /\ Len(password) # 0 /\ Len(Trim(password)) # 0
    IN  UNION { UNION { LET created == /\ reached /\ encOk
                                       /\ createResp.fail = "none" /\ createResp.ok
                        IN  UNION { { [encFailed |-> ~encOk \/ ~loginEncOk,
                                       createResp |-> createResp, resp |-> loginResp,
                                       out |-> register(email, password, encOk, createResp,
                                                        loginEncOk, loginResp, ls)] :
                                      loginResp \in RespChoices(created /\ loginEncOk,
                                                                LoginResponses) } :
                                    loginEncOk \in EncChoices(created) } :
                        createResp \in RespChoices(reached /\ encOk, SimpleResponses) } :
                encOk \in EncChoices(reached) }

CallLogin ==
    \E email \in ServiceEmails, password \in ShortPasswords :
    \E run \in LoginRuns(email, password, localStorage) :
        /\ AppLoaded
        /\ localStorage' = run.out.ls
        /\ sent' = run.out.sent
        /\ op' = [NoOp EXCEPT !.name = "authService.login", !.email = email,
                     !.password = password, !.encFailed = run.encFailed,
                     !.resp = run.resp, !.result = run.out.result]
        /\ SamePage
        /\ UNCHANGED <<sessionStorage, Environment>>

CallRegister ==
    \E email \in ServiceEmails, password \in ShortPasswords :
    \E run \in RegisterRuns(email, password, localStorage) :
        /\ AppLoaded
        /\ localStorage' = run.out.ls
        /\ sent' = run.out.sent
        /\ op' = [NoOp EXCEPT !.name = "authService.register", !.email = email,
                     !.password = password, !.encFailed = run.encFailed,
                     !.createResp = run.createResp, !.resp = run.resp,
                     !.result = run.out.result]
        /\ SamePage
        /\ UNCHANGED <<sessionStorage, Environment>>

RedirectUris == {Null, <<"http://localhost:3000", CallbackPath>>}

CallOAuthLogin ==
    \E provider \in {"", "google", "apple"}, code \in Codes, redirectUri \in RedirectUris :
    \E resp \in RespChoices(provider # "" /\ code # "" /\ redirectUri # Null,
                            LoginResponses) :
        LET out == oauthLogin(provider, code, redirectUri, resp, localStorage)
        IN  /\ AppLoaded
            /\ localStorage' = out.ls
            /\ sent' = out.sent
            /\ op' = [NoOp EXCEPT !.name = "authService.oauthLogin",
                         !.provider = provider, !.code = code,
                         !.redirectUri = redirectUri, !.resp = resp,
                         !.result = out.result]
            /\ SamePage
            /\ UNCHANGED <<sessionStorage, Environment>>

CallLogout ==
    /\ AppLoaded
    /\ localStorage' = logout(localStorage)
    /\ sent' = <<>>
    /\ op' = [NoOp EXCEPT !.name = "authService.logout"]
    /\ SamePage
    /\ UNCHANGED <<sessionStorage, Environment>>

\* the tokens a caller can hold
BearerTokens == {Null, TempTok}

CallInitiateSetup ==
    \E token \in BearerTokens, resp \in SetupResponses :
        LET out == initiateSetup(token, resp, localStorage)
        IN  /\ AppLoaded
            /\ localStorage' = out.ls
            /\ sent' = out.sent
            /\ op' = [NoOp EXCEPT !.name = "mfaService.initiateSetup", !.token = token,
                         !.resp = resp, !.result = out.result]
            /\ SamePage
            /\ UNCHANGED <<sessionStorage, Environment>>

CallEnable ==
    \E code \in {"123456"}, password \in ShortPasswords, token \in BearerTokens,
       resp \in SimpleResponses :
        LET out == enable(code, password, token, resp, localStorage)
        IN  /\ AppLoaded
            /\ localStorage' = out.ls
            /\ sent' = out.sent
            /\ op' = [NoOp EXCEPT !.name = "mfaService.enable", !.code = code,
                         !.password = password, !.token = token, !.resp = resp,
                         !.result = out.result]
            /\ SamePage
            /\ UNCHANGED <<sessionStorage, Environment>>

CallVerifyLogin ==
    \E tempToken \in TempTokens, code \in {"123456"}, resp \in LoginResponses :
        LET out == verifyLogin(tempToken, code, resp, localStorage)
        IN  /\ AppLoaded
            /\ localStorage' = out.ls
            /\ sent' = out.sent
            /\ op' = [NoOp EXCEPT !.name = "mfaService.verifyLogin", !.token = tempToken,
                         !.code = code, !.resp = resp, !.result = out.result]
            /\ SamePage
            /\ UNCHANGED <<sessionStorage, Environment>>

\* decodeJwtPayload called on a token
CallDecodeJwtPayload ==
    \E token \in JwtInputs :
        /\ AppLoaded
        /\ sent' = <<>>
        /\ op' = [NoOp EXCEPT !.name = "decodeJwtPayload", !.token = token,
                     !.decoded = decodeJwtPayload(token)]
        /\ SamePage
        /\ UNCHANGED <<localStorage, sessionStorage, Environment>>

\* authService.initiateOAuth: on success the browser leaves for the provider
CallInitiateOAuth ==
    \E provider \in ProviderNames, clientId \in ClientIds :
        LET started == initiateOAuth(provider, clientId, envRedirect, origin)
        IN  /\ AppLoaded
            /\ sent' = <<>>
            /\ op' = [NoOp EXCEPT !.name = "authService.initiateOAuth",
                         !.provider = provider, !.clientId = clientId,
                         !.threw = started.threw]
            /\ IF started.threw
               THEN SamePage
               ELSE /\ path' = "provider"
                    /\ mounted' = FALSE
                    /\ authUrl' = started.url
                    /\ query' = NoQuery
                    /\ flowRedirect' = DecodeURIComponent(started.url.redirect_uri)
                    /\ FreshPage
            /\ UNCHANGED <<localStorage, sessionStorage, Environment>>
----------------------------------------------------------------------------
(* LoginPage *)

ErrFillAll      == "Por favor completa todos los campos"
ErrEmail        == "Email inválido"
ErrPasswordLen  == "La contraseña debe tener al menos 8 caracteres"
ErrLogin        == "Error al iniciar sesión"
ErrRegister     == "Error al registrarse"

\* useEffect of LoginPage: loadOAuthConfig
MountLogin ==
    \E resp \in ConfigResponses :
        LET req == BaseRequest("API_URL", "/api/auth/oauth/config")
        IN  /\ path = "/login" /\ ~mounted
            /\ mounted' = TRUE
            /\ sent' = Fetch(req, resp)
            /\ oauthProviders' =
                 IF resp.fail = "none" /\ resp.ok /\ resp.success /\ resp.kind = "google"
                 THEN "client-id" ELSE ""
            /\ op' = [NoOp EXCEPT !.name = "LoginPage.loadOAuthConfig", !.resp = resp]
            /\ UNCHANGED <<localStorage, sessionStorage, Environment, path, authUrl,
                           query, flowRedirect, status, claims, verify, dashToken, mfaStep,
                           mfaToken, pageError, timer>>

\* LoginPage.handleSubmit: the guard clauses of the form
LoginFormError(email, password) ==
    IF Len(Trim(email)) = 0 \/ Len(Trim(password)) = 0 THEN ErrFillAll
    ELSE IF ~EmailRegexTest(email) THEN ErrEmail
    ELSE ""

\* a form handler stopped by a guard clause: only the error is shown
FormRejected(name, email, password, userName, error) ==
    /\ pageError' = error
    /\ sent' = <<>>
    /\ op' = [NoOp EXCEPT !.name = name, !.email = email, !.password = password,
                 !.userName = userName]
    /\ UNCHANGED <<localStorage, sessionStorage, Environment, path, mounted, authUrl,
                   query, flowRedirect, oauthProviders, status, claims, verify, dashToken,
                   mfaStep, mfaToken, timer>>

\* a form handler that called the service: on success the browser goes to the
\* dashboard, otherwise the error is shown
FormSubmitted(name, email, password, userName, run, fallback) ==
    /\ localStorage' = run.out.ls
    /\ sent' = run.out.sent
    /\ op' = [NoOp EXCEPT !.name = name, !.email = email, !.password = password,
                 !.userName = userName, !.encFailed = run.encFailed, !.createResp = run.createResp,
                 !.resp = run.resp, !.result = run.out.result]
    /\ IF run.out.result.success
       THEN GoTo("/dashboard")
       ELSE /\ pageError' = IF run.out.result.error # "" THEN run.out.result.error
                            ELSE fallback
            /\ UNCHANGED <<path, mounted, authUrl, query, flowRedirect, oauthProviders,
                           status, claims, verify, dashToken, mfaStep, mfaToken, timer>>
    /\ UNCHANGED <<sessionStorage, Environment>>

LoginSubmit ==
    \E email \in Emails, password \in ShortPasswords :
        /\ path = "/login" /\ mounted
        /\ IF LoginFormError(email, password) # ""
           THEN FormRejected("LoginPage.handleSubmit", email, password, <<>>,
                             LoginFormError(email, password))
           ELSE \E run \in LoginRuns(email, password, localStorage) :
                    FormSubmitted("LoginPage.handleSubmit", email, password, <<>>, run,
                                  ErrLogin)

\* LoginPage.handleOAuthLogin('google'): the button is there only when the
\* backend offered google with a client id
OAuthClick ==
    LET started == initiateOAuth("google", oauthProviders, envRedirect, origin)
    IN  /\ path = "/login" /\ mounted
        /\ oauthProviders # ""
        /\ ~started.threw
        /\ path' = "provider"
        /\ mounted' = FALSE
        /\ authUrl' = started.url
        /\ query' = NoQuery
        /\ flowRedirect' = DecodeURIComponent(started.url.redirect_uri)
        /\ FreshPage
        /\ sent' = <<>>
        /\ op' = [NoOp EXCEPT !.name = "LoginPage.handleOAuthLogin", !.provider = "google",
                     !.clientId = oauthProviders]
        /\ UNCHANGED <<localStorage, sessionStorage, Environment>>

----------------------------------------------------------------------------
(* RegisterPage *)

\* RegisterPage.handleSubmit: the guard clauses of the form
RegisterFormError(email, password, name) ==
    IF Len(Trim(email)) = 0 \/ Len(Trim(password)) = 0 \/ Len(Trim(name)) = 0
    THEN ErrFillAll
    ELSE IF ~EmailRegexTest(email) THEN ErrEmail
    ELSE IF Len(password) < MinPasswordLength THEN ErrPasswordLen
    ELSE ""

RegisterSubmit ==
    \E email \in Emails, password \in Passwords, name \in Names :
        /\ path = "/register" /\ mounted
        /\ IF RegisterFormError(email, password, name) # ""
           THEN FormRejected("RegisterPage.handleSubmit", email, password, name,
                             RegisterFormError(email, password, name))
           ELSE \E run \in RegisterRuns(email, password, localStorage) :
                    FormSubmitted("RegisterPage.handleSubmit", email, password, name, run,
                                  ErrRegister)
----------------------------------------------------------------------------
(* The OAuth provider and OAuthCallbackPage *)

\* the provider sends the browser back to the redirect URI of the
\* authorization URL, with a code or an error and the state it was given
ProviderRedirect ==
    \E code \in {NoParam, Param("123456")}, error \in {NoParam, Param("access_denied")} :
        LET target == DecodeURIComponent(authUrl.redirect_uri)
        IN  /\ path = "provider"
            /\ Truthy(code) \/ Truthy(error)
            /\ origin' = target[1]
            /\ Load(target[2], Query(code, error, Param(DecodeURIComponent(authUrl.state))),
                    flowRedirect)
            /\ sent' = <<>>
            /\ op' = [NoOp EXCEPT !.name = "provider.redirect"]
            /\ UNCHANGED <<localStorage, sessionStorage, envRedirect>>

ErrOAuth == "Error al autenticar con OAuth"

\* a callback page that shows nothing new when the exchange fails
AfterOAuthLoginSilent(result) ==
    IF ~result.success
    THEN [status |-> "loading", tempToken |-> Null, goto |-> "", timer |-> "none"]
    ELSE [status |-> "success", tempToken |-> Null, goto |-> "", timer |-> "dashboard"]

\* OAuthCallbackPage.handleCallback after oauthLogin resolved to `result`:
\* what the page does next
AfterOAuthLogin(result) ==
    IF ~result.success
    THEN [status |-> "error", tempToken |-> Null, goto |-> "", timer |-> "none"]
    ELSE IF result.mfaRequired /\ ~FalsyTok(result.tempToken)
    THEN [status |-> "loading", tempToken |-> result.tempToken,
          goto |-> IF result.message = "SETUP_REQUIRED" THEN "/mfa/setup" ELSE "/login/2fa",
          timer |-> "none"]
    ELSE [status |-> "success", tempToken |-> Null, goto |-> "", timer |-> "dashboard"]

\* useEffect of OAuthCallbackPage: handleCallback
MountCallback ==
    LET valid == validateOAuthCallback(query) /\ Truthy(query.code)
        provider == IF Truthy(query.state) THEN query.state.text ELSE "google"
        savedRedirectUri == sessionStorage.oauth_redirect_uri
        redirectUri == CallbackRedirectUri(savedRedirectUri, envRedirect, origin)
    IN  \E resp \in RespChoices(valid, LoginResponses) :
        LET out == oauthLogin(provider, query.code.text, redirectUri, resp, localStorage)
            next == AfterOAuthLogin(out.result)
        IN  /\ path = CallbackPath /\ ~mounted
            /\ IF ~valid
               THEN /\ status' = "error"
                    /\ mounted' = TRUE
                    /\ sent' = <<>>
                    /\ op' = [NoOp EXCEPT !.name = "OAuthCallbackPage.handleCallback",
                                 !.code = query.code.text]
                    /\ UNCHANGED <<localStorage, sessionStorage, path, authUrl, query,
                                   flowRedirect, oauthProviders, claims, verify, dashToken,
                                   mfaStep, mfaToken, pageError, timer>>
               ELSE /\ localStorage' = out.ls
                    /\ sent' = out.sent
                    /\ op' = [NoOp EXCEPT !.name = "OAuthCallbackPage.handleCallback",
                                 !.provider = provider, !.code = query.code.text,
                                 !.redirectUri = redirectUri, !.resp = resp,
                                 !.result = out.result]
                    /\ sessionStorage' =
                         [sessionStorage EXCEPT
                            !.oauth_redirect_uri = Null,
                            !.mfa_temp_token = IF next.tempToken # Null
                                               THEN next.tempToken ELSE @]
                    /\ IF next.goto # ""
                       THEN GoTo(next.goto)
                       ELSE /\ status' = next.status
                            /\ timer' = next.timer
                            /\ mounted' = TRUE
                            /\ UNCHANGED <<path, authUrl, query, flowRedirect,
                                           oauthProviders, claims, verify, dashToken, mfaStep,
                                           mfaToken, pageError>>
            /\ UNCHANGED Environment

\* the setTimeout callback of OAuthCallbackPage
CallbackTimer ==
    /\ path = CallbackPath /\ timer = "dashboard"
    /\ GoTo("/dashboard")
    /\ sent' = <<>>
    /\ op' = [NoOp EXCEPT !.name = "OAuthCallbackPage.redirectTimer"]
    /\ UNCHANGED <<localStorage, sessionStorage, Environment>>

\* the 'Volver al Login' button of OAuthCallbackPage
CallbackBackToLogin ==
    /\ path = CallbackPath /\ status = "error"
    /\ GoTo("/login")
    /\ sent' = <<>>
    /\ op' = [NoOp EXCEPT !.name = "OAuthCallbackPage.backToLogin"]
    /\ UNCHANGED <<localStorage, sessionStorage, Environment>>

----------------------------------------------------------------------------
(* DashboardPage *)

\* a dashboard that renders without looking for a token
DashboardEffectUnprotected(token) ==
    [goto |-> "", claims |-> IF FalsyTok(token) THEN NoClaims ELSE decodeJwtPayload(token)]

\* useEffect of DashboardPage, given localStorage.getItem('auth_token'):
\* where the browser goes ("" to stay) and the claims on display
DashboardEffect(token) ==
    IF FalsyTok(token)
    THEN [goto |-> "/login", claims |-> NoClaims]
    ELSE [goto |-> "", claims |-> decodeJwtPayload(token)]

MountDashboard ==
    LET token == localStorage.auth_token
        effect == DashboardEffect(token)
    IN  /\ path = "/dashboard" /\ ~mounted
        /\ sent' = <<>>
        /\ op' = [NoOp EXCEPT !.name = "DashboardPage.mount", !.token = token]
        /\ IF effect.goto # ""
           THEN GoTo(effect.goto)
           ELSE /\ claims' = effect.claims
                /\ dashToken' = token
                /\ mounted' = TRUE
                /\ UNCHANGED <<path, authUrl, query, flowRedirect, oauthProviders,
                               verify, status, mfaStep, mfaToken, pageError, timer>>
        /\ UNCHANGED <<localStorage, sessionStorage, Environment>>

\* localStorage.clear()
ClearStorage(ls) == [k \in DOMAIN ls |-> Null]

\* the 'Cerrar Sesión' button
DashboardLogout ==
    /\ path = "/dashboard" /\ mounted
    /\ localStorage' = ClearStorage(localStorage)
    /\ GoTo("/login")
    /\ sent' = <<>>
    /\ op' = [NoOp EXCEPT !.name = "DashboardPage.logout"]
    /\ UNCHANGED <<sessionStorage, Environment>>

----------------------------------------------------------------------------
(* MfaSetupPage and TwoFaChallengePage *)

ErrSetup        == "Error al iniciar setup"
ErrCodeRequired == "Código y contraseña requeridos"
ErrEnable       == "Código incorrecto o contraseña inválida"

\* useEffect of MfaSetupPage: init
MountMfaSetup ==
    LET token == sessionStorage.mfa_temp_token
        authToken == localStorage.auth_token
        usableToken == IF ~FalsyTok(token) THEN token ELSE authToken
    IN  \E resp \in RespChoices(~FalsyTok(usableToken), SetupResponses) :
        LET out == initiateSetup(usableToken, resp, localStorage)
        IN  /\ path = "/mfa/setup" /\ ~mounted
            /\ IF FalsyTok(usableToken)
               THEN /\ GoTo("/login")
                    /\ sent' = <<>>
                    /\ op' = [NoOp EXCEPT !.name = "MfaSetupPage.init"]
               ELSE /\ mfaToken' = usableToken
                    /\ sent' = out.sent
                    /\ op' = [NoOp EXCEPT !.name = "MfaSetupPage.init",
                                 !.token = usableToken, !.resp = resp,
                                 !.result = out.result]
                    /\ mounted' = TRUE
                    /\ IF out.result.success /\ out.result.qrCodeUri
                       THEN mfaStep' = "qr" /\ pageError' = pageError
                       ELSE /\ mfaStep' = mfaStep
                            /\ pageError' = IF out.result.error # ""
                                            THEN out.result.error ELSE ErrSetup
                    /\ UNCHANGED <<path, authUrl, query, flowRedirect, oauthProviders,
                                   status, claims, verify, dashToken, timer>>
            /\ UNCHANGED <<localStorage, sessionStorage, Environment>>

\* MfaSetupPage.handleEnable: the form of step 'qr'
MfaEnableSubmit ==
    \E code \in Codes, password \in ShortPasswords :
    \E resp \in RespChoices(code # "" /\ Len(password) # 0, SimpleResponses) :
        LET out == enable(code, password, mfaToken, resp, localStorage)
        IN  /\ path = "/mfa/setup" /\ mounted /\ mfaStep = "qr"
            /\ IF code = "" \/ Len(password) = 0
               THEN /\ pageError' = ErrCodeRequired
                    /\ sent' = <<>>
                    /\ op' = [NoOp EXCEPT !.name = "MfaSetupPage.handleEnable",
                                 !.code = code, !.password = password]
                    /\ UNCHANGED <<mfaStep, timer>>
               ELSE /\ sent' = out.sent
                    /\ op' = [NoOp EXCEPT !.name = "MfaSetupPage.handleEnable",
                                 !.code = code, !.password = password,
                                 !.token = mfaToken, !.resp = resp,
                                 !.result = out.result]
                    /\ IF out.result.success
                       THEN mfaStep' = "success" /\ timer' = "2fa" /\ pageError' = ""
                       ELSE /\ pageError' = IF out.result.error # ""
                                            THEN out.result.error ELSE ErrEnable
                            /\ UNCHANGED <<mfaStep, timer>>
            /\ UNCHANGED <<localStorage, sessionStorage, Environment, path, mounted,
                           authUrl, query, flowRedirect, oauthProviders, status, claims, verify,
                           dashToken, mfaToken>>

\* the setTimeout callback of MfaSetupPage
MfaTimer ==
    /\ path = "/mfa/setup" /\ timer = "2fa"
    /\ GoTo("/login/2fa")
    /\ sent' = <<>>
    /\ op' = [NoOp EXCEPT !.name = "MfaSetupPage.redirectTimer"]
    /\ UNCHANGED <<localStorage, sessionStorage, Environment>>

\* useEffect of TwoFaChallengePage.  No operation of the application ever
\* leaves a temp token in sessionStorage (see OAuthCallbackPage), so the form
\* of this page is never reached.
MountTwoFa ==
    LET token == sessionStorage.mfa_temp_token
    IN  /\ path = "/login/2fa" /\ ~mounted
        /\ sent' = <<>>
        /\ op' = [NoOp EXCEPT !.name = "TwoFaChallengePage.mount", !.token = token]
        /\ IF FalsyTok(token)
           THEN GoTo("/login")
           ELSE /\ mounted' = TRUE
                /\ mfaToken' = token
                /\ UNCHANGED <<path, authUrl, query, flowRedirect, oauthProviders,
                               status, claims, verify, dashToken, mfaStep, pageError, timer>>
        /\ UNCHANGED <<localStorage, sessionStorage, Environment>>

----------------------------------------------------------------------------
(* VerifyEmailPage *)

\* the address the page's fetch calls are written with
VerifyEmailBase == "http://localhost:5018"

\* the user opens the link of the verification e-mail
NavigateVerifyEmail ==
    \E token \in {"", "tok"} :
        /\ path' = VerifyEmailPath
        /\ mounted' = FALSE
        /\ authUrl' = NoAuthUrl
        /\ query' = NoQuery
        /\ flowRedirect' = Null
        /\ oauthProviders' = ""
        /\ status' = "loading"
        /\ claims' = NoClaims
        /\ verify' = [NoVerify EXCEPT !.token = token]
        /\ dashToken' = Null
        /\ mfaStep' = "loading"
        /\ mfaToken' = Null
        /\ pageError' = ""
        /\ timer' = "none"
        /\ op' = [NoOp EXCEPT !.name = "navigate"]
        /\ sent' = <<>>
        /\ UNCHANGED <<localStorage, sessionStorage, Environment>>

\* VerifyEmailContent.verifyEmail after the answer: state and accessToken
AfterVerifyEmail(resp) ==
    IF resp.fail # "none" \/ ~resp.ok
    THEN [state |-> "error", accessToken |-> Null]
    ELSE [state |-> IF resp.kind = "secret" THEN "verified_setup_needed"
                    ELSE "success_no_action",
          accessToken |-> IF FalsyTok(resp.access) THEN Null ELSE resp.access]

\* useEffect of VerifyEmailContent
MountVerifyEmail ==
    \E resp \in RespChoices(verify.token # "", VerifyEmailResponses) :
        LET req == [BaseRequest(VerifyEmailBase, "/api/auth/verify-email/confirm")
                      EXCEPT !.token = verify.token]
            next == AfterVerifyEmail(resp)
        IN  /\ path = VerifyEmailPath /\ ~mounted
            /\ mounted' = TRUE
            /\ IF verify.token = ""
               THEN /\ verify' = [verify EXCEPT !.state = "error"]
                    /\ sent' = <<>>
                    /\ op' = [NoOp EXCEPT !.name = "VerifyEmailPage.verifyEmail"]
               ELSE /\ verify' = [verify EXCEPT !.state = next.state,
                                                !.accessToken = next.accessToken]
                    /\ sent' = Fetch(req, resp)
                    /\ op' = [NoOp EXCEPT !.name = "VerifyEmailPage.verifyEmail",
                                 !.resp = resp]
            /\ UNCHANGED <<localStorage, sessionStorage, Environment, path, authUrl,
                           query, flowRedirect, oauthProviders, status, claims,
                           dashToken, mfaStep, mfaToken, pageError, timer>>

\* VerifyEmailContent.handleEnableMfa: the form of state verified_setup_needed
VerifyEmailEnable ==
    \E code \in Codes, resp \in RespChoices(verify.accessToken # Null, SimpleResponses) :
        LET req == [BaseRequest(VerifyEmailBase, "/api/auth/mfa/enable") EXCEPT
                      !.bearer = verify.accessToken, !.code = code]
        IN  /\ path = VerifyEmailPath /\ mounted
            /\ verify.state = "verified_setup_needed"
            /\ IF verify.accessToken = Null
               THEN /\ GoTo("/login")
                    /\ sent' = <<>>
                    /\ op' = [NoOp EXCEPT !.name = "VerifyEmailPage.handleEnableMfa",
                                 !.code = code]
               ELSE /\ verify' = [verify EXCEPT !.state =
                                    IF resp.fail = "none" /\ resp.ok
                                    THEN "complete_recovery_codes"
                                    ELSE "verified_setup_needed"]
                    /\ sent' = Fetch(req, resp)
                    /\ op' = [NoOp EXCEPT !.name = "VerifyEmailPage.handleEnableMfa",
                                 !.code = code, !.token = verify.accessToken,
                                 !.resp = resp]
                    /\ UNCHANGED <<path, mounted, authUrl, query, flowRedirect,
                                   oauthProviders, status, claims, dashToken, mfaStep,
                                   mfaToken, pageError, timer>>
            /\ UNCHANGED <<localStorage, sessionStorage, Environment>>

\* the buttons of the final states: router.push('/login') and
\* router.push('/dashboard')
VerifyEmailLeave ==
    /\ path = VerifyEmailPath /\ mounted
    /\ verify.state \in {"error", "success_no_action", "complete_recovery_codes"}
    /\ GoTo(IF verify.state = "complete_recovery_codes" THEN "/dashboard" ELSE "/login")
    /\ sent' = <<>>
    /\ op' = [NoOp EXCEPT !.name = "VerifyEmailPage.leave"]
    /\ UNCHANGED <<localStorage, sessionStorage, Environment>>

----------------------------------------------------------------------------

\* the application as shipped: the pages, their handlers and timers
Next ==
    \/ Navigate
    \/ NavigateCallback
    \/ MountLogin
    \/ LoginSubmit
    \/ OAuthClick
    \/ RegisterSubmit
    \/ ProviderRedirect
    \/ MountCallback
    \/ CallbackTimer
    \/ CallbackBackToLogin
    \/ MountDashboard
    \/ DashboardLogout
    \/ MountMfaSetup
    \/ MfaEnableSubmit
    \/ MfaTimer
    \/ MountTwoFa
    \/ NavigateVerifyEmail
    \/ MountVerifyEmail
    \/ VerifyEmailEnable
    \/ VerifyEmailLeave

Spec == Init /\ [][Next]_vars

\* the application together with a page of the integrating frontend that
\* calls the services directly, with arbitrary arguments
InitService == Init /\ envRedirect = "" /\ origin = "http://localhost:3000"

NextService ==
    \/ Next
    \/ CallLogin
    \/ CallRegister
    \/ CallOAuthLogin
    \/ CallInitiateOAuth
    \/ CallLogout
    \/ CallInitiateSetup
    \/ CallEnable
    \/ CallVerifyLogin
    \/ CallDecodeJwtPayload

SpecService == InitService /\ [][NextService]_vars

TypeOK ==
    /\ path \in AppPaths \cup {CallbackPath, VerifyEmailPath, "provider"}
    /\ status \in {"loading", "success", "error"}
    /\ timer \in {"none", "dashboard", "2fa"}
    /\ Len(sent) <= 2

----------------------------------------------------------------------------
(* Properties *)

\* the handlers that run an operation of authService or mfaService
LoginOps      == {"authService.login", "LoginPage.handleSubmit"}
RegisterOps   == {"authService.register", "RegisterPage.handleSubmit"}
OAuthLoginOps == {"authService.oauthLogin", "OAuthCallbackPage.handleCallback"}
SetupOps      == {"mfaService.initiateSetup", "MfaSetupPage.init"}
EnableOps     == {"mfaService.enable", "MfaSetupPage.handleEnable"}
VerifyOps     == {"mfaService.verifyLogin"}
TimerOps      == {"OAuthCallbackPage.redirectTimer", "MfaSetupPage.redirectTimer"}

\* the last handler ran a service operation to its end
Invoked(names) == op.name \in names /\ op.result.settled # "none"

\* C1: every password that a request carries is the output of
\* encryptPassword, never the plaintext; this covers the requests of
\* authService.login, authService.register and mfaService.enable.
C1_PasswordOnlyEncrypted ==
    \A i \in 1..Len(sent) :
        sent[i].password.present => sent[i].password.enc

\* C2: login, oauthLogin and verifyLogin write auth_token and refresh_token
\* exactly when they return success: true, and the two keys then hold the
\* token and the refreshToken of the returned session; when they return
\* success: false localStorage is what it was before the call.
C2_TokensStoredIffSuccess ==
    [][ (op'.name \in LoginOps \cup OAuthLoginOps \cup VerifyOps
         /\ op'.result.settled # "none")
        => IF op'.result.success
           THEN /\ ~op'.result.session.isNull
                /\ localStorage' = [auth_token    |-> op'.result.session.token,
                                    refresh_token |-> op'.result.session.refreshToken]
           ELSE localStorage' = localStorage ]_vars

\* C2 witness: verifyLogin succeeded and the two keys hold the tokens of
\* the backend's answer
C2_Witness ==
    /\ Invoked(VerifyOps) /\ op.result.success
    /\ localStorage.auth_token = op.result.session.token
    /\ localStorage.refresh_token = op.result.session.refreshToken
    /\ localStorage.auth_token = op.resp.access
    /\ localStorage.refresh_token = op.resp.refresh

\* C3: when the backend answers the OAuth code exchange with "MFA required"
\* and a temp token, the callback page stores the temp token under
\* sessionStorage key mfa_temp_token and navigates to /mfa/setup if the
\* message is SETUP_REQUIRED and to /login/2fa otherwise.
C3_MfaHandoff ==
    ( /\ op.name = "OAuthCallbackPage.handleCallback"
      /\ op.resp.fail = "none" /\ op.resp.ok /\ op.resp.success
      /\ op.resp.kind = "mfa" /\ ~FalsyTok(op.resp.temp) )
    => /\ sessionStorage.mfa_temp_token = op.resp.temp
       /\ path = IF op.resp.message = "SETUP_REQUIRED" THEN "/mfa/setup" ELSE "/login/2fa"

\* C4: the redirectUri that the callback page sends in the oauthLogin
\* request equals the redirect URI that initiateOAuth put into the
\* authorization URL of the same flow.
C4_SameRedirectUri ==
    ( /\ op.name = "OAuthCallbackPage.handleCallback"
      /\ flowRedirect # Null
      /\ Len(sent) > 0 )
    => /\ sent[1].url = "/api/auth/oauth/login"
       /\ sent[1].redirectUri = flowRedirect

\* C4 witness: a flow started on the login page came back to the callback
\* page of a deployment whose redirect URI is configured, and the code was
\* exchanged
C4_Witness ==
    /\ op.name = "OAuthCallbackPage.handleCallback"
    /\ flowRedirect = <<"https://demo.up.railway.app", CallbackPath>>
    /\ Len(sent) = 1
    /\ sent[1].redirectUri = flowRedirect

\* C5: the dashboard is protected.  Mounted with no auth_token in
\* localStorage it redirects to /login and displays no claims; claims are on
\* display only on the dashboard, only while auth_token is present, and they
\* are the decoded payload of that token.
C5_DashboardProtected ==
    /\ (op.name = "DashboardPage.mount" /\ FalsyTok(op.token))
         => (path = "/login" /\ claims.isNull)
    /\ ~claims.isNull
         => /\ path = "/dashboard"
            /\ ~FalsyTok(localStorage.auth_token)
            /\ claims = decodeJwtPayload(localStorage.auth_token)

\* C5 witness: the dashboard was opened without a token and the browser is
\* on /login with no claims on display
C5_Witness ==
    /\ op.name = "DashboardPage.mount"
    /\ localStorage.auth_token = Null
    /\ path = "/login"
    /\ claims.isNull

\* a request to an endpoint that issues a session
LoginUrls == {"/api/auth/login", "/api/auth/oauth/login", "/api/auth/login/2fa"}

\* C6: after authService.logout or the 'Cerrar Sesión' button neither
\* auth_token nor refresh_token is in localStorage; an auth_token appears in
\* localStorage only by a login, OAuth login or 2FA verification that
\* succeeds, and until then every visit to the dashboard redirects to /login.
C6_LogoutEndsSession ==
    /\ [](op.name \in {"authService.logout", "DashboardPage.logout"}
            => (localStorage.auth_token = Null /\ localStorage.refresh_token = Null))
    /\ [][ /\ (FalsyTok(localStorage.auth_token) /\ ~FalsyTok(localStorage'.auth_token))
                => /\ op'.result.success
                   /\ \E i \in 1..Len(sent') : sent'[i].url \in LoginUrls
           /\ (FalsyTok(localStorage.auth_token) /\ op'.name = "DashboardPage.mount")
                => (path' = "/login" /\ claims'.isNull) ]_vars

\* C6 witness: the 'Cerrar Sesión' button of a dashboard that was showing a
\* session was pressed; both keys are gone and the browser is on /login
C6_Witness ==
    /\ op.name = "DashboardPage.logout"
    /\ localStorage = NoStorage
    /\ path = "/login"

\* the handlers that run one of the six asynchronous service operations
ServiceOps ==
    LoginOps \cup RegisterOps \cup OAuthLoginOps \cup SetupOps \cup EnableOps \cup VerifyOps

\* no request of the last handler was put on the wire twice
NoResend == \A i \in 1..Len(sent) : \A j \in 1..Len(sent) : i # j => sent[i] # sent[j]

\* C7 as stated: every asynchronous service operation (login, register,
\* oauthLogin, initiateSetup, enable, verifyLogin) is a single HTTP round
\* trip per invocation: it issues one backend request and never re-sends
\* it, and no timer issues further requests.
C7_SingleRoundTrip ==
    /\ op.name \in ServiceOps => (Len(sent) <= 1 /\ NoResend)
    /\ op.name \in TimerOps => Len(sent) = 0

\* C7 amended: login, oauthLogin, initiateSetup, enable and verifyLogin
\* issue at most one backend request per invocation; register issues at most
\* two, the create-user request and then the login request; no operation
\* re-sends a request and no timer issues one.
C7_RoundTrips ==
    /\ op.name \in ServiceOps \ RegisterOps => Len(sent) <= 1
    /\ op.name \in RegisterOps
         => /\ Len(sent) <= 2
            /\ Len(sent) >= 1 => sent[1].url = "/api/users"
            /\ Len(sent) = 2 => sent[2].url = "/api/auth/login"
    /\ op.name \in ServiceOps => NoResend
    /\ op.name \in TimerOps => Len(sent) = 0

\* C7 witness: a register that issued its two requests
C7_Witness ==
    /\ Invoked(RegisterOps)
    /\ Len(sent) = 2
    /\ sent[1].url = "/api/users" /\ sent[2].url = "/api/auth/login"

\* something threw inside the try block of the last operation: the
\* encryption, a fetch, or the parsing of a body the operation parses
Threw ==
    \/ op.encFailed
    \/ op.createResp.fail # "none"
    \/ op.resp.fail = "fetch"
    \/ op.resp.fail = "parse" /\ (op.name \notin EnableOps \/ ~op.resp.ok)

\* an argument that the guard clauses require is missing
MissingArgument ==
    \/ op.name \in LoginOps \cup RegisterOps /\ (Len(op.email) = 0 \/ Len(op.password) = 0)
    \/ op.name \in OAuthLoginOps
       /\ (op.provider = "" \/ op.code = "" \/ op.redirectUri = Null)

\* the message of the catch block of the service an operation belongs to
ConnectionError ==
    IF op.name \in LoginOps \cup RegisterOps \cup OAuthLoginOps
    THEN ErrConnection ELSE ErrMfaConnection

\* C8 as stated: every asynchronous service operation resolves and never
\* rejects; when fetch, response parsing or encryption throws the result is
\* success: false with the catch-all connection-error message; missing
\* arguments (email, password, provider, code, redirectUri) give
\* success: false.
C8_NeverRejects ==
    Invoked(ServiceOps)
    => /\ op.result.settled = "resolved"
       /\ Threw => (~op.result.success /\ op.result.error = ConnectionError)
       /\ MissingArgument => ~op.result.success

\* the one throw that is answered otherwise: enable could not parse the body
\* of a response that is not OK
EnableBodyUnreadable ==
    op.name \in EnableOps /\ op.resp.fail = "parse" /\ ~op.resp.ok

\* C8 amended: as stated, with the catch-all message fixed per service
\* ('Error de conexión con el servidor' for authService, 'Error de conexión'
\* for mfaService), except that mfaService.enable answers a response that is
\* not OK and whose body does not parse with success: false and
\* 'Error al habilitar MFA'; missing arguments send no request.
C8_ResolvesWithFailure ==
    Invoked(ServiceOps)
    => /\ op.result.settled = "resolved"
       /\ (Threw /\ ~EnableBodyUnreadable)
            => (~op.result.success /\ op.result.error = ConnectionError)
       /\ EnableBodyUnreadable
            => (~op.result.success /\ op.result.error = ErrMfaEnable)
       /\ MissingArgument => (~op.result.success /\ Len(sent) = 0)

\* C8 witness: a fetch of an authService operation failed and the operation
\* resolved to the connection error
C8_Witness ==
    /\ Invoked(OAuthLoginOps)
    /\ op.resp.fail = "fetch"
    /\ op.result.settled = "resolved" /\ ~op.result.success
    /\ op.result.error = ErrConnection

\* C9: register first sends the create-user request and, only after it
\* succeeded, logs in with the same email and password, returning the
\* result of that login unchanged; when the creation fails no login request
\* is sent and no token is stored; success: true means both steps succeeded.
C9_RegisterThenLogin ==
    [][ (op'.name \in RegisterOps /\ op'.result.settled # "none")
        => LET created == /\ Len(sent') >= 1
                          /\ op'.createResp.fail = "none" /\ op'.createResp.ok
               loginOut == login(op'.email, op'.password, ~op'.encFailed, op'.resp,
                                 localStorage)
           IN  /\ Len(sent') >= 1
                    => /\ sent'[1].url = "/api/users"
                       /\ sent'[1].email = op'.email
                       /\ sent'[1].password = encryptPassword(op'.password, TRUE).value
               /\ created
                    => /\ op'.result = loginOut.result
                       /\ localStorage' = loginOut.ls
                       /\ sent' = <<sent'[1]>> \o loginOut.sent
               /\ ~created
                    => /\ Len(sent') <= 1
                       /\ \A i \in 1..Len(sent') : sent'[i].url # "/api/auth/login"
                       /\ localStorage' = localStorage
                       /\ ~op'.result.success
               /\ op'.result.success
                    => /\ created
                       /\ Len(sent') = 2
                       /\ sent'[2].url = "/api/auth/login"
                       /\ sent'[2].email = op'.email
                       /\ sent'[2].password = sent'[1].password
                       /\ ~toAuthSession(op'.resp).isNull
                       /\ localStorage'.auth_token = op'.result.session.token ]_vars

\* C9 witness: a register whose creation and login both succeeded
C9_Witness ==
    /\ Invoked(RegisterOps) /\ op.result.success
    /\ op.createResp.ok /\ op.createResp.fail = "none"
    /\ Len(sent) = 2
    /\ localStorage.auth_token = op.resp.access

\* C10: password validation on registration is the simplified one: the
\* registration form accepts every password that is not empty after
\* trimming and sends it to the backend; the client imposes no length or
\* complexity requirement.
C10_AnyNonEmptyPasswordAccepted ==
    ( /\ op.name = "RegisterPage.handleSubmit"
      /\ Len(Trim(op.userName)) # 0
      /\ EmailRegexTest(op.email)
      /\ Len(Trim(op.password)) # 0
      /\ ~op.encFailed )
    => /\ pageError # ErrPasswordLen
       /\ Len(sent) >= 1
       /\ sent[1].url = "/api/users"
       /\ sent[1].password.text = op.password

\* the backend endpoints of the OAuth flow
OAuthUrls == {"/api/auth/oauth/login", "/api/auth/oauth/config"}

\* C11: every request the frontend sends to the backend for OAuth (the code
\* exchange at /api/auth/oauth/login and the lookup at /api/auth/oauth/config)
\* carries the X-Tenant-Id header with the configured tenant id.
C11_OAuthRequestsCarryTenant ==
    \A i \in 1..Len(sent) : sent[i].url \in OAuthUrls => sent[i].tenant

\* C12: every backend request is sent to the configured API base URL
\* (NEXT_PUBLIC_API_URL, by default the Railway production URL); no request
\* has a localhost address as its fixed destination.
C12_RequestsGoToApiUrl ==
    \A i \in 1..Len(sent) : sent[i].base = "API_URL"

\* C13: buildOAuthUrl works for every OAuth provider: for every provider
\* name offered (Google, Apple, ...) with a non-empty clientId and
\* redirectUri it returns an authorization URL and does not throw.
C13_EveryProviderGetsUrl ==
    ( /\ op.name = "authService.initiateOAuth"
      /\ op.provider # "" /\ op.clientId # "" )
    => /\ ~op.threw
       /\ path = "provider"
       /\ DecodeURIComponent(authUrl.client_id) = op.clientId

\* the callback page has run handleCallback on the URL in `query`
CallbackHandled == op.name = "OAuthCallbackPage.handleCallback" /\ path = CallbackPath

\* C14 as stated: validateOAuthCallback returns valid: true exactly when the
\* callback has no error parameter and a non-empty code; an error parameter
\* takes precedence over a present code; the callback page calls
\* authService.oauthLogin only for callbacks that validate and sets status
\* to error otherwise.
C14_ValidIffNoErrorParameter ==
    CallbackHandled
    => /\ validateOAuthCallback(query)
            <=> (~query.error.present /\ Truthy(query.code))
       /\ Len(sent) > 0 => (~query.error.present /\ Truthy(query.code))
       /\ ~(~query.error.present /\ Truthy(query.code))
            => (status = "error" /\ Len(sent) = 0)

\* C14 amended: validateOAuthCallback returns valid: true exactly when the
\* callback has no non-empty error parameter (an absent or empty one does not
\* count) and a non-empty code; a non-empty error parameter takes precedence
\* over a present code; the callback page calls authService.oauthLogin
\* exactly for the callbacks that validate, with that code, and sets status
\* to error without a request otherwise.
C14_ValidIffNoErrorAndCode ==
    CallbackHandled
    => LET accepted == ~Truthy(query.error) /\ Truthy(query.code)
       IN  /\ validateOAuthCallback(query) <=> accepted
           /\ accepted => /\ Len(sent) = 1
                          /\ sent[1].url = "/api/auth/oauth/login"
                          /\ sent[1].code = query.code.text
           /\ ~accepted => (status = "error" /\ Len(sent) = 0)

\* C14 witness: a callback with both an error and a code was rejected
\* without a request
C14_Witness ==
    /\ CallbackHandled
    /\ Truthy(query.error) /\ Truthy(query.code)
    /\ status = "error" /\ Len(sent) = 0

\* decodeJwtPayload was called on op.token and returned op.decoded
Decoded == op.name = "decodeJwtPayload"

\* the payload texts that are JSON
JsonTexts == {"jsonA", "jsonB", "jsonNoEmail"}

\* the results for op.token with each signature part in place of its own
SameForEverySignature ==
    Len(op.token) = 3
    => \A sig \in {Sig(n) : n \in 1..MaxSig} \cup {EmptySeg, Seg("bad", "", 0)} :
          decodeJwtPayload(<<op.token[1], op.token[2], sig>>) = op.decoded

\* C15 as stated: decodeJwtPayload returns null for every token that does
\* not have exactly three dot-separated parts or whose payload is not valid
\* Base64URL JSON, and returns the same payload for tokens that differ only
\* in the signature part.
C15_NullUnlessBase64UrlJson ==
    Decoded
    => /\ Len(op.token) # 3 => op.decoded.isNull
       /\ (Len(op.token) = 3
           /\ ~(op.token[2].alphabet \in {"alnum", "url"} /\ op.token[2].text \in JsonTexts))
            => op.decoded.isNull
       /\ SameForEverySignature

\* C15 amended: decodeJwtPayload returns null for every token that does not
\* have exactly three dot-separated parts or whose payload, after '-' and '_'
\* are replaced by '+' and '/', is not Base64 text of JSON (a payload in the
\* standard Base64 alphabet is decoded too); otherwise it returns the parsed
\* payload; and it returns the same for tokens that differ only in the
\* signature part.
C15_NullUnlessBase64Json ==
    Decoded
    => LET readable == /\ Len(op.token) = 3
                       /\ op.token[2].alphabet \in {"alnum", "url", "std"}
                       /\ op.token[2].text \in JsonTexts
       IN  /\ ~readable => op.decoded.isNull
           /\ readable => op.decoded = JsonParse(op.token[2].text).value
           /\ SameForEverySignature

\* C15 witness: a token with an empty signature part was decoded to its
\* payload
C15_Witness ==
    /\ Decoded
    /\ Len(op.token) = 3 /\ op.token[3] = EmptySeg
    /\ ~op.decoded.isNull
    /\ op.decoded = decodeJwtPayload(<<op.token[1], op.token[2], Sig(1)>>)

\* C16: the status of the OAuth callback page starts at loading and changes
\* at most once, to success or to error; it never goes from error to success
\* or back to loading; and once the backend has answered or the request has
\* failed, the page has left loading or navigated to an MFA page.
C16_StatusChangesOnce ==
    /\ []((path = CallbackPath /\ ~mounted) => status = "loading")
    /\ [][ (path = CallbackPath /\ path' = CallbackPath
            /\ op'.name \notin {"navigate", "provider.redirect"})
           => /\ status # "loading" => status' = status
              /\ status' \in {"loading", "success", "error"} ]_vars
    /\ []((op.name = "OAuthCallbackPage.handleCallback" /\ Len(sent) > 0)
            => \/ path = CallbackPath /\ status \in {"success", "error"}
               \/ path \in {"/mfa/setup", "/login/2fa"})

\* C16 witness: the backend answered the exchange with an error and the page
\* went from loading to error
C16_Witness ==
    /\ op.name = "OAuthCallbackPage.handleCallback"
    /\ Len(sent) = 1 /\ op.resp.fail = "none" /\ ~op.resp.ok
    /\ path = CallbackPath /\ status = "error"

============================================================================
